---- MODULE Spec2Model ----
(***************************************************************************)
(* A model of scan.py, the AI Passport dataset scanner: DatasetScanner's   *)
(* scan_repository / _scan_file (reference extraction and de-duplication), *)
(* enrich_with_licences / _classify_reference / _fetch_hf_license /        *)
(* _risk_from_licence (licence and risk classification) and                *)
(* generate_passport (the two report files).                               *)
(*                                                                         *)
(* Python strings are modelled as sequences of one-character strings, so   *)
(* that the regular expressions, str.lower, str.strip, str.replace,        *)
(* str.endswith and the substring tests are computed character by          *)
(* character as the code computes them.                                    *)
(***************************************************************************)
EXTENDS Integers, Sequences, FiniteSets, TLC

(***************************************************************************)
(* Bounds of the model.                                                    *)
(***************************************************************************)
\* calls of scan_repository on the one scanner
MaxScans == 2
\* calls of enrich_with_licences on the one scanner
MaxPasses == 2

(***************************************************************************)
(* Characters and the str methods the scanner uses.                        *)
(***************************************************************************)
DQ == "\""
SQ == "'"
BS == "\\"

Quotes == {SQ, DQ}

\* whitespace as \s and str.strip() see it
Whitespace == {" ", "\n", "\t"}

UpperCase ==
    <<"A","B","C","D","E","F","G","H","I","J","K","L","M",
      "N","O","P","Q","R","S","T","U","V","W","X","Y","Z">>

LowerCase ==
    <<"a","b","c","d","e","f","g","h","i","j","k","l","m",
      "n","o","p","q","r","s","t","u","v","w","x","y","z">>

ToLower == [c \in {UpperCase[k] : k \in 1..26} |->
               LowerCase[CHOOSE k \in 1..26 : UpperCase[k] = c]]

\* str.lower() on one character
Lower(c) == IF c \in DOMAIN ToLower THEN ToLower[c] ELSE c

\* str.lower()
LowerStr(s) == [i \in 1..Len(s) |-> Lower(s[i])]

\* s[i:].startswith(lit)   (1-based i)
StartsWithAt(s, i, lit) ==
    /\ i + Len(lit) - 1 <= Len(s)
    /\ \A k \in 1..Len(lit) : s[i + k - 1] = lit[k]

\* the same under re.IGNORECASE, for a lower-case literal of the pattern
StartsWithAtI(s, i, lit) ==
    /\ i + Len(lit) - 1 <= Len(s)
    /\ \A k \in 1..Len(lit) : Lower(s[i + k - 1]) = lit[k]

StartsWith(s, lit) == StartsWithAt(s, 1, lit)

EndsWith(s, lit) ==
    /\ Len(lit) <= Len(s)
    /\ StartsWithAt(s, Len(s) - Len(lit) + 1, lit)

\* lit in s
Contains(s, lit) == \E i \in 1..(Len(s) + 1) : StartsWithAt(s, i, lit)

Min(S) == CHOOSE x \in S : \A y \in S : x <= y
Max(S) == CHOOSE x \in S : \A y \in S : y <= x

\* str.strip(chars): from the first to the last character not in chars
StripOf(s, cs) ==
    LET keep == {i \in 1..Len(s) : s[i] \notin cs}
    IN  IF keep = {} THEN <<>> ELSE SubSeq(s, Min(keep), Max(keep))

\* str.strip()
Strip(s) == StripOf(s, Whitespace)

\* str.replace(old, ""), every non-overlapping occurrence, left to right
RECURSIVE Remove(_, _)
Remove(s, old) ==
    LET at == {i \in 1..Len(s) : StartsWithAt(s, i, old)}
    IN  IF at = {} THEN s
        ELSE SubSeq(s, 1, Min(at) - 1)
             \o Remove(SubSeq(s, Min(at) + Len(old), Len(s)), old)

\* str.replace("\\", "/")
BackslashToSlash(s) == [i \in 1..Len(s) |-> IF s[i] = BS THEN "/" ELSE s[i]]

(***************************************************************************)
(* The four pattern rules of scan_repository and re.findall over them.     *)
(***************************************************************************)
\* the keys of the patterns dict, in its (insertion) order
PatternTypes ==
    <<"huggingface_load_dataset", "pandas_read_csv", "dataset_urls", "huggingface_datasets">>

\* \s* : the position after the longest run of whitespace from i
SkipWs(text, i) ==
    LET stops == {j \in i..Len(text) : text[j] \notin Whitespace}
    IN  IF stops # {} THEN Min(stops)
        ELSE IF i > Len(text) THEN i ELSE Len(text) + 1

\* [^...]* : the first position from i whose character the negated class
\* rejects (Len(text)+1 when none does).  Under re.IGNORECASE a letter in
\* the class rejects both of its cases.
RunEnd(text, i, rejected) ==
    LET stops == {j \in i..Len(text) : Lower(text[j]) \in rejected}
    IN  IF stops # {} THEN Min(stops)
        ELSE IF i > Len(text) THEN i ELSE Len(text) + 1

NoMatch == [ok |-> FALSE, end |-> 0, val |-> <<>>]

\* name\s*\(\s*['\"]([^'\"]+)['\"] tried at position i, name already matched
\* up to (not including) position j
CallArgument(text, j) ==
    LET open == SkipWs(text, j)
        quote == SkipWs(text, open + 1)
        close == RunEnd(text, quote + 1, Quotes)
    IN  IF /\ open <= Len(text) /\ text[open] = "("
           /\ quote <= Len(text) /\ text[quote] \in Quotes
           /\ close > quote + 1
           /\ close <= Len(text)
        THEN [ok |-> TRUE, end |-> close + 1, val |-> SubSeq(text, quote + 1, close - 1)]
        ELSE NoMatch

\* r"load_dataset\s*\(\s*['\"]([^'\"]+)['\"]"
MatchLoadDataset(text, i) ==
    IF StartsWithAtI(text, i, <<"l", "o", "a", "d", "_", "d", "a", "t", "a", "s", "e", "t">>)
    THEN CallArgument(text, i + 12)
    ELSE NoMatch

\* r"(?:pd\.read_csv|pandas\.read_csv)\s*\(\s*['\"]([^'\"]+)['\"]"
MatchReadCsv(text, i) ==
    IF StartsWithAtI(text, i, <<"p", "d", ".", "r", "e", "a", "d", "_", "c", "s", "v">>) THEN CallArgument(text, i + 11)
    ELSE IF StartsWithAtI(text, i, <<"p", "a", "n", "d", "a", "s", ".", "r", "e", "a", "d", "_", "c", "s", "v">>) THEN CallArgument(text, i + 15)
    ELSE NoMatch

DataExtensions == <<<<".", "c", "s", "v">>, <<".", "j", "s", "o", "n", "l">>, <<".", "p", "a", "r", "q", "u", "e", "t">>, <<".", "z", "i", "p">>>>

\* a scanner without the bare-literal rule
MatchDatasetUrlNever(text, i) == NoMatch

\* r"['\"]([^'\"]*(?:\.csv|\.jsonl|\.parquet|\.zip))['\"]" : the class cannot
\* cross a quote, so the closing quote is the first one after the opening
\* quote and the extension ends right before it
MatchDatasetUrl(text, i) ==
    LET close == RunEnd(text, i + 1, Quotes)
        body == SubSeq(text, i + 1, close - 1)
    IN  IF /\ i <= Len(text) /\ text[i] \in Quotes
           /\ close <= Len(text)
           /\ \E k \in 1..Len(DataExtensions) : EndsWith(LowerStr(body), DataExtensions[k])
        THEN [ok |-> TRUE, end |-> close + 1, val |-> body]
        ELSE NoMatch

\* The class of the second group as the regex engine reads it.  The pattern
\* is a raw string, r"...([^'\"\\s]+)...": inside the class \" is a quote and
\* \\ is a backslash, which leaves s a plain letter.
HfPathRejected == {SQ, DQ, BS, "s"}

\* r"['\"]?(https?://)?(?:www\.)?huggingface\.co/datasets/([^'\"\\s]+)['\"]?"
\* findall returns the tuple of both groups and _scan_file keeps m[1]
MatchHfDatasets(text, i) ==
    LET p0 == IF i <= Len(text) /\ text[i] \in Quotes THEN i + 1 ELSE i
        p1 == IF StartsWithAtI(text, p0, <<"h", "t", "t", "p", "s", ":", "/", "/">>) THEN p0 + 8
              ELSE IF StartsWithAtI(text, p0, <<"h", "t", "t", "p", ":", "/", "/">>) THEN p0 + 7
              ELSE p0
        p2 == IF StartsWithAtI(text, p1, <<"w", "w", "w", ".">>) THEN p1 + 4 ELSE p1
        p3 == p2 + 24
        e == RunEnd(text, p3, HfPathRejected)
    IN  IF /\ StartsWithAtI(text, p2, <<"h", "u", "g", "g", "i", "n", "g", "f", "a", "c", "e", ".", "c", "o", "/", "d", "a", "t", "a", "s", "e", "t", "s", "/">>)
           /\ e > p3
        THEN [ok |-> TRUE,
              end |-> IF e <= Len(text) /\ text[e] \in Quotes THEN e + 1 ELSE e,
              val |-> SubSeq(text, p3, e - 1)]
        ELSE NoMatch

MatchAt(ptype, text, i) ==
    CASE ptype = "huggingface_load_dataset" -> MatchLoadDataset(text, i)
      [] ptype = "pandas_read_csv" -> MatchReadCsv(text, i)
      [] ptype = "dataset_urls" -> MatchDatasetUrl(text, i)
      [] ptype = "huggingface_datasets" -> MatchHfDatasets(text, i)

\* re.findall(pattern, text, re.IGNORECASE): the leftmost match from i on,
\* then the leftmost match after its end, and so on; the value is the kept
\* group.  starts holds the positions at which the pattern matches.
RECURSIVE FindAllFrom(_, _, _, _)
FindAllFrom(ptype, text, starts, i) ==
    LET left == {j \in starts : j >= i}
    IN  IF left = {} THEN <<>>
        ELSE LET m == MatchAt(ptype, text, Min(left))
             IN  <<m.val>> \o FindAllFrom(ptype, text, starts, m.end)

FindAll(ptype, text) ==
    FindAllFrom(ptype, text, {j \in 1..Len(text) : MatchAt(ptype, text, j).ok}, 1)

GENERIC_TOKENS == {<<"n", "a", "m", "e">>, <<"d", "a", "t", "a", "s", "e", "t", "_", "n", "a", "m", "e">>, <<".", "c", "s", "v">>, <<".", "j", "s", "o", "n", "l">>, <<".", "p", "a", "r", "q", "u", "e", "t">>, <<".", "z", "i", "p">>}

\* ref = (m or "").strip(); dropped when empty, generic or shorter than 3
Normalise(m) == Strip(m)

Kept(ref) == ~(ref = <<>> \/ ref \in GENERIC_TOKENS \/ Len(ref) < 3)

RECURSIVE KeptRefs(_, _)
KeptRefs(ptype, ms) ==
    IF ms = <<>> THEN <<>>
    ELSE LET ref == Normalise(Head(ms))
         IN  (IF Kept(ref) THEN <<[type |-> ptype, reference |-> ref]>> ELSE <<>>)
             \o KeptRefs(ptype, Tail(ms))

\* the (type, reference) pairs _scan_file builds from one text, in the order
\* it builds them: pattern by pattern, match by match
RECURSIVE CandidatesFrom(_, _)
CandidatesFrom(text, k) ==
    IF k > Len(PatternTypes) THEN <<>>
    ELSE KeptRefs(PatternTypes[k], FindAll(PatternTypes[k], text))
         \o CandidatesFrom(text, k + 1)

Candidates(text) == CandidatesFrom(text, 1)

(***************************************************************************)
(* The trees the scanner is run on: each a set of files, a file being its  *)
(* path below root_dir, its text and whether open() succeeds.              *)
(***************************************************************************)
TextLoadSquad == <<"l", "o", "a", "d", "_", "d", "a", "t", "a", "s", "e", "t", "(", "\"", "s", "q", "u", "a", "d", "\"", ")">>
TextLoadUpper == <<"l", "o", "a", "d", "_", "d", "a", "t", "a", "s", "e", "t", "(", " ", "'", "L", "O", "C", "A", "L", "/", "D", "a", "t", "a", ".", "C", "S", "V", "'", " ", ")">>
TextLoadUrl == <<"l", "o", "a", "d", "_", "d", "a", "t", "a", "s", "e", "t", "(", "\"", "h", "t", "t", "p", "s", ":", "/", "/", "h", "u", "g", "g", "i", "n", "g", "f", "a", "c", "e", ".", "c", "o", "/", "d", "a", "t", "a", "s", "e", "t", "s", "/", "s", "q", "u", "a", "d", "/", "\"", ")">>
TextReadCsvLocal == <<"p", "d", ".", "r", "e", "a", "d", "_", "c", "s", "v", "(", "\"", "l", "o", "c", "a", "l", "/", "d", "a", "t", "a", ".", "c", "s", "v", "\"", ")">>
TextReadCsvParquet == <<"p", "d", ".", "r", "e", "a", "d", "_", "c", "s", "v", "(", "\"", "d", "/", "t", ".", "p", "a", "r", "q", "u", "e", "t", "\"", ")">>
TextReadCsvBare == <<"p", "d", ".", "r", "e", "a", "d", "_", "c", "s", "v", "(", "\"", ".", "c", "s", "v", "\"", ")">>
TextReadCsvBadUrl == <<"p", "d", ".", "r", "e", "a", "d", "_", "c", "s", "v", "(", "\"", "h", "t", "t", "p", ":", "/", "/", "[", "b", "a", "d", ".", "c", "s", "v", "\"", ")">>
TextReadCsvGov == <<"p", "a", "n", "d", "a", "s", ".", "r", "e", "a", "d", "_", "c", "s", "v", "(", "'", "h", "t", "t", "p", "s", ":", "/", "/", "c", "a", "t", "a", "l", "o", "g", ".", "d", "a", "t", "a", ".", "g", "o", "v", "/", "a", ".", "c", "s", "v", "'", ")">>
TextHfUrlQuoted == <<"\"", "h", "t", "t", "p", "s", ":", "/", "/", "h", "u", "g", "g", "i", "n", "g", "f", "a", "c", "e", ".", "c", "o", "/", "d", "a", "t", "a", "s", "e", "t", "s", "/", "o", "r", "g", "/", "n", "a", "m", "e", "\"">>
TextHfUrlSquad == <<"\"", "h", "t", "t", "p", "s", ":", "/", "/", "h", "u", "g", "g", "i", "n", "g", "f", "a", "c", "e", ".", "c", "o", "/", "d", "a", "t", "a", "s", "e", "t", "s", "/", "s", "q", "u", "a", "d", "\"">>
TextHfUrlUnquoted == <<"s", "e", "e", " ", "h", "t", "t", "p", "s", ":", "/", "/", "h", "u", "g", "g", "i", "n", "g", "f", "a", "c", "e", ".", "c", "o", "/", "d", "a", "t", "a", "s", "e", "t", "s", "/", "o", "r", "g", "/", "n", "a", "m", "e", " ", "f", "o", "r", " ", "i", "n", "f", "o", "\n">>
TextLiteralUpper == <<"p", "a", "t", "h", " ", "=", " ", "'", "L", "O", "C", "A", "L", "/", "D", "a", "t", "a", ".", "C", "S", "V", "'">>
TextLiterals == <<"\"", "x", ".", "c", "s", "v", "\"", " ", "'", "X", ".", "C", "S", "V", "'", " ", "\"", ".", "z", "i", "p", "\"", " ", "p", "d", ".", "r", "e", "a", "d", "_", "c", "s", "v", "(", "\"", "t", "a", "b", "l", "e", "\"", ")">>
TextHosts == <<"\"", "h", "t", "t", "p", "s", ":", "/", "/", "w", "w", "w", ".", "k", "a", "g", "g", "l", "e", ".", "c", "o", "m", "/", "d", ".", "z", "i", "p", "\"", " ", "\"", "h", "t", "t", "p", "s", ":", "/", "/", "h", "u", "g", "g", "i", "n", "g", "f", "a", "c", "e", ".", "c", "o", "/", "m", ".", "p", "a", "r", "q", "u", "e", "t", "\"", " ", "\"", "h", "t", "t", "p", ":", "/", "/", "e", "x", "a", "m", "p", "l", "e", ".", "o", "r", "g", "/", "a", ".", "j", "s", "o", "n", "l", "\"">>

File(path, text) == [path |-> path, text |-> text, readable |-> TRUE]
Unreadable(path, text) == [path |-> path, text |-> text, readable |-> FALSE]

PathA == <<<<"a", ".", "p", "y">>>>
PathB == <<<<"b", ".", "m", "d">>>>

\* files the walk must pass over: under a skip directory, under a hidden
\* directory, the reserved README.md, a file that is no text file, and one
\* that cannot be opened
PassedOver ==
    {File(<<<<"d", "a", "t", "a">>, <<"c", ".", "p", "y">>>>, TextReadCsvLocal),
     File(<<<<"s", "r", "c">>, <<".", "c", "a", "c", "h", "e">>, <<"d", ".", "p", "y">>>>, TextLoadSquad),
     File(<<<<"R", "E", "A", "D", "M", "E", ".", "m", "d">>>>, TextHfUrlQuoted),
     File(<<<<"n", "o", "t", "e", "s", ".", "b", "i", "n">>>>, TextReadCsvLocal),
     Unreadable(PathB, TextLoadSquad)}

Trees ==
    {{},
     {File(PathA, TextLoadSquad)},
     {File(PathA, TextLoadUpper)},
     {File(PathA, TextLoadUrl)},
     {File(PathA, TextReadCsvLocal)},
     {File(PathA, TextReadCsvParquet)},
     {File(PathA, TextReadCsvBare)},
     {File(PathA, TextReadCsvGov)},
     {File(PathA, TextHfUrlSquad)},
     {File(PathA, TextHfUrlUnquoted)},
     {File(PathA, TextLiterals)},
     {File(PathA, TextHosts)},
     {File(PathA, TextHfUrlQuoted), File(PathB, TextHfUrlQuoted)},
     {File(PathA, TextReadCsvLocal), File(PathB, TextLiteralUpper)},
     {File(PathA, TextLoadSquad), File(PathB, TextReadCsvBadUrl)},
     PassedOver \cup {File(PathA, TextLiterals)}}

(***************************************************************************)
(* The file tree.  A path is the sequence of its components relative to    *)
(* root_dir (Path("."), so rglob yields root-relative paths and            *)
(* file_path.parts are the relative components); a file is a path, its     *)
(* text and whether open() succeeds.  Only regular files are kept: the     *)
(* directories rglob also yields are dropped by is_dir() at once.          *)
(***************************************************************************)
file_extensions == {<<".", "p", "y">>, <<".", "i", "p", "y", "n", "b">>, <<".", "m", "d">>, <<".", "t", "x", "t">>, <<".", "y", "m", "l">>, <<".", "y", "a", "m", "l">>, <<".", "j", "s", "o", "n">>}

skip_dirs ==
    {<<".", "g", "i", "t">>, <<".", "p", "a", "s", "s", "p", "o", "r", "t">>, <<"n", "o", "d", "e", "_", "m", "o", "d", "u", "l", "e", "s">>, <<"v", "e", "n", "v">>, <<"e", "n", "v">>, <<"d", "i", "s", "t">>,
     <<"b", "u", "i", "l", "d">>, <<".", "i", "p", "y", "n", "b", "_", "c", "h", "e", "c", "k", "p", "o", "i", "n", "t", "s">>, <<"d", "a", "t", "a">>}

skip_files == {<<"s", "c", "a", "n", ".", "p", "y">>, <<"R", "E", "A", "D", "M", "E", ".", "m", "d">>, <<".", "g", "i", "t", "h", "u", "b", "/", "w", "o", "r", "k", "f", "l", "o", "w", "s", "/", "p", "a", "s", "s", "p", "o", "r", "t", ".", "y", "m", "l">>}

\* PurePath.suffix of the last component: from the last dot, when that dot
\* is neither the first nor the last character of the name
Suffix(name) ==
    LET dots == {i \in 1..Len(name) : name[i] = "."}
        last == CHOOSE i \in dots : \A j \in dots : j <= i
    IN  IF dots # {} /\ last > 1 /\ last < Len(name)
        THEN SubSeq(name, last, Len(name))
        ELSE <<>>

\* str(relative_path): the components joined by "/"
RECURSIVE PathStr(_)
PathStr(parts) ==
    IF parts = <<>> THEN <<>>
    ELSE IF Len(parts) = 1 THEN Head(parts)
    ELSE Head(parts) \o <<"/">> \o PathStr(Tail(parts))

\* str(relative_path).replace("\\", "/")
RelativeName(parts) == BackslashToSlash(PathStr(parts))

\* any(part in skip_dirs or part.startswith('.') for part in file_path.parts)
InSkippedPart(parts) ==
    \E k \in 1..Len(parts) : parts[k] \in skip_dirs \/ StartsWith(parts[k], <<".">>)

\* a walk that only looks at the suffix
EligibleBySuffix(parts) == LowerStr(Suffix(parts[Len(parts)])) \in file_extensions

\* the three "continue" tests of the walk that look at the path
Eligible(parts) ==
    /\ LowerStr(Suffix(parts[Len(parts)])) \in file_extensions
    /\ ~InSkippedPart(parts)
    /\ RelativeName(parts) \notin skip_files

EligibleFiles(tree) == {f \in tree : Eligible(f.path)}

\* the orders in which rglob may yield a set of files
Orders(files) ==
    {o \in [1..Cardinality(files) -> files] :
        \A i, j \in 1..Cardinality(files) : i # j => o[i] # o[j]}

(***************************************************************************)
(* Entries of datasets_found.  An entry the classifier has not reached     *)
(* yet has no licence, licence_source, notes and risk_flag keys: Absent.   *)
(***************************************************************************)
Absent == "<absent>"
AbsentLicence == <<Absent>>
AbsentNotes == [text |-> Absent, arg |-> <<>>]

NewEntry(ptype, ref, file, now) ==
    [type |-> ptype, reference |-> ref, file |-> file, found_at |-> now,
     licence |-> AbsentLicence, licence_source |-> Absent,
     notes |-> AbsentNotes, risk_flag |-> Absent]

\* a key that keeps the reference's case
DedupKeyExact(ptype, ref) == <<ptype, ref>>

\* key = f"{entry['type']}:{entry['reference'].lower()}"; none of the four types
\* holds a ":", so the string and the pair tell the same keys apart
DedupKey(ptype, ref) == <<ptype, LowerStr(ref)>>

\* the loop body of _scan_file for the candidates of one file: build the
\* entry, skip it when its key is already in datasets_found, else append
RECURSIVE AppendNew(_, _, _, _)
AppendNew(found, cands, file, now) ==
    IF cands = <<>> THEN found
    ELSE LET c == Head(cands)
             dup == \E i \in 1..Len(found) :
                       DedupKey(found[i].type, found[i].reference)
                         = DedupKey(c.type, c.reference)
         IN  AppendNew(IF dup THEN found
                       ELSE Append(found, NewEntry(c.type, c.reference, file, now)),
                       Tail(cands), file, now)

\* the first half of _scan_file: read the text (an unreadable file returns
\* at once, with nothing) and collect the kept matches of the four patterns
Read(f) ==
    [file |-> RelativeName(f.path),
     refs |-> IF f.readable THEN Candidates(f.text) ELSE <<>>]

\* _scan_file on a file that was read
ScanFile(found, r, now) == AppendNew(found, r.refs, r.file, now)

\* the for loop of scan_repository over the eligible files, in walk order
RECURSIVE ScanFiles(_, _, _)
ScanFiles(found, order, now) ==
    IF order = <<>> THEN found
    ELSE ScanFiles(ScanFile(found, Head(order), now), Tail(order), now)

\* what the scan matched, kept by the filters, before de-duplication
RECURSIVE Matched(_)
Matched(order) ==
    IF order = <<>> THEN <<>>
    ELSE LET r == Head(order)
         IN  [k \in 1..Len(r.refs) |->
                 [type |-> r.refs[k].type, reference |-> r.refs[k].reference,
                  file |-> r.file]]
             \o Matched(Tail(order))

(***************************************************************************)
(* The remote metadata lookup.  What urlopen and json.loads give back is   *)
(* the environment's choice:                                               *)
(*   outcome   "ok", or the exception urlopen raised                       *)
(*   body      what json.loads made of the bytes: "dict", "list" (any      *)
(*             JSON value that is no object) or "notjson"                  *)
(*   cardData  the kind of data.get("cardData"): "none" (missing or null), *)
(*             "dict", or "str" (a truthy value that is no object)         *)
(*   license   card.get("license")                                         *)
(*   licenses  card.get("licenses")                                        *)
(* A JSON value is [k, s]: its kind and, for a string, its characters.     *)
(***************************************************************************)
JNone == [k |-> "none", s |-> <<>>]
JStr(s) == [k |-> "str", s |-> s]
\* an object with the one key "name"
JNamed(s) == [k |-> "dict", s |-> s]

NoList == [k |-> "none", items |-> <<>>]
JList(items) == [k |-> "list", items |-> items]

Response(outcome, body, cardData, license, licenses) ==
    [outcome |-> outcome, body |-> body, cardData |-> cardData,
     license |-> license, licenses |-> licenses]

Failed(outcome) == Response(outcome, "notjson", "none", JNone, NoList)
Card(license, licenses) == Response("ok", "dict", "dict", license, licenses)

RespURLError == Failed("URLError")
RespTimeout == Failed("timeout")
RespHTTPError == Failed("HTTPError")
RespNotJson == Response("ok", "notjson", "none", JNone, NoList)
RespJsonList == Response("ok", "list", "none", JNone, NoList)
RespNoLicence == Card(JNone, NoList)
RespEmptyLicence == Card(JStr(<<>>), JList(<<>>))
RespCcBy == Card(JStr(<<"C", "C", "-", "B", "Y", "-", "4", ".", "0">>), NoList)
RespGpl == Card(JStr(<<"g", "p", "l", "-", "3", ".", "0">>), NoList)
RespLicensesNamed == Card(JNone, JList(<<JNamed(<<"A", "p", "a", "c", "h", "e", "-", "2", ".", "0">>)>>))

\* the answers the remote host is let give
Responses ==
    {RespURLError, RespTimeout, RespHTTPError, RespNotJson, RespJsonList,
     RespNoLicence, RespEmptyLicence, RespCcBy, RespGpl, RespLicensesNamed}

\* Python's truth value of a JSON value
Truthy(v) == v.k = "dict" \/ (v.k = "str" /\ v.s # <<>>)

NoLicence == [none |-> TRUE, s |-> <<>>]
SomeLicence(s) == [none |-> FALSE, s |-> s]

\* the "licenses" fallback: the first entry of a non-empty list, its name
\* when it is an object, itself when it is a string
FromLicenses(ls) ==
    IF ls.k = "list" /\ ls.items # <<>>
    THEN LET first == ls.items[1]
         IN  IF first.k = "dict" THEN JStr(first.s)
             ELSE IF first.k = "str" THEN first
             ELSE JNone
    ELSE JNone

\* a lookup that returns str(lic) without the "if lic" test
FetchHfLicenseUnguarded(resp) ==
    IF resp.outcome # "ok" \/ resp.body # "dict" \/ resp.cardData = "str"
    THEN NoLicence
    ELSE LET lic == IF Truthy(resp.license) THEN resp.license
                    ELSE FromLicenses(resp.licenses)
         IN  SomeLicence(IF lic.k = "none" THEN <<"N", "o", "n", "e">> ELSE lic.s)

\* _fetch_hf_license: every exception (urlopen's, json.loads's, the
\* AttributeError of .get on a value that is no dict) ends in "return None"
FetchHfLicense(resp) ==
    IF resp.outcome # "ok" \/ resp.body # "dict" \/ resp.cardData = "str"
    THEN NoLicence
    ELSE LET card == IF resp.cardData = "dict"
                     THEN [license |-> resp.license, licenses |-> resp.licenses]
                     ELSE [license |-> JNone, licenses |-> NoList]
             lic == IF Truthy(card.license) THEN card.license
                    ELSE FromLicenses(card.licenses)
         IN  IF Truthy(lic) THEN SomeLicence(lic.s) ELSE NoLicence

(***************************************************************************)
(* _risk_from_licence                                                      *)
(***************************************************************************)
PermissiveMarkers ==
    {<<"c", "c", "0">>, <<"p", "u", "b", "l", "i", "c", " ", "d", "o", "m", "a", "i", "n">>, <<"o", "p", "e", "n", " ", "g", "o", "v", "e", "r", "n", "m", "e", "n", "t">>, <<"o", "d", "c">>, <<"a", "p", "a", "c", "h", "e">>, <<"m", "i", "t">>, <<"b", "s", "d">>}

\* a risk rule without the cc-by test
RiskFromLicenceMarkersOnly(lic) ==
    IF \E k \in PermissiveMarkers : Contains(LowerStr(lic), k) THEN "low" ELSE "review"

RiskFromLicence(lic) ==
    LET lic_l == LowerStr(lic)
    IN  IF \E k \in PermissiveMarkers : Contains(lic_l, k) THEN "low"
        ELSE IF Contains(lic_l, <<"c", "c", "-", "b", "y">>) \/ Contains(lic_l, <<"c", "c", " ", "b", "y">>) THEN "low"
        ELSE IF lic_l \in {<<"u", "n", "k", "n", "o", "w", "n">>, <<>>, <<"n", "o", "n", "e">>, <<"o", "t", "h", "e", "r">>} THEN "review"
        ELSE "review"

(***************************************************************************)
(* urlparse(ref).netloc.  ref starts with http:// or https://, so the      *)
(* scheme is split off and the network location runs from after the "//"   *)
(* to the first "/", "?" or "#".  urlsplit first deletes tabs and          *)
(* newlines, and raises ValueError("Invalid IPv6 URL") when the network    *)
(* location holds one of "[" and "]" without the other.                    *)
(***************************************************************************)
Without(s, cs) == LET kept(c) == c \notin cs IN SelectSeq(s, kept)

Netloc(ref) ==
    LET url == Without(ref, {"\t", "\n"})
        start == IF StartsWith(url, <<"h", "t", "t", "p", "s", ":", "/", "/">>) THEN 9 ELSE 8
        stop == RunEnd(url, start, {"/", "?", "#"})
    IN  SubSeq(url, start, stop - 1)

UrlparseRaises(ref) ==
    LET netloc == Netloc(ref)
        has(c) == \E i \in 1..Len(netloc) : netloc[i] = c
    IN  has("[") # has("]")

\* _looks_like_url
LooksLikeUrl(s) == StartsWith(s, <<"h", "t", "t", "p", ":", "/", "/">>) \/ StartsWith(s, <<"h", "t", "t", "p", "s", ":", "/", "/">>)

(***************************************************************************)
(* _classify_reference.  The result says whether the call raised, whether  *)
(* it made the remote lookup, and the (licence, source, notes, risk) it    *)
(* returned.  notes is the f-string's template and its argument.           *)
(***************************************************************************)
Unknown == <<"U", "n", "k", "n", "o", "w", "n">>

Classified(licence, source, text, arg, risk, looked) ==
    [raised |-> FALSE, looked |-> looked, licence |-> licence,
     licence_source |-> source, notes |-> [text |-> text, arg |-> arg],
     risk_flag |-> risk]

Raised ==
    [raised |-> TRUE, looked |-> FALSE, licence |-> AbsentLicence,
     licence_source |-> Absent, notes |-> AbsentNotes, risk_flag |-> Absent]

\* hf_id.replace("https://huggingface.co/datasets/", "").strip().strip("/")
NormaliseHfId(hf_id) ==
    StripOf(Strip(Remove(hf_id, <<"h", "t", "t", "p", "s", ":", "/", "/", "h", "u", "g", "g", "i", "n", "g", "f", "a", "c", "e", ".", "c", "o", "/", "d", "a", "t", "a", "s", "e", "t", "s", "/">>)), {"/"})

IsHfType(ptype) == ptype \in {"huggingface_datasets", "huggingface_load_dataset"}

\* branch 1: the remote lookup
ClassifyHf(ref, resp) ==
    LET hf_id == NormaliseHfId(ref)
        lic == FetchHfLicense(resp)
    IN  IF ~lic.none
        THEN Classified(lic.s, "huggingface_api", "License read from HF card for '{hf_id}'",
                        hf_id, RiskFromLicence(lic.s), TRUE)
        ELSE Classified(Unknown, "heuristic", "No license field found for '{hf_id}'",
                        hf_id, "review", TRUE)

\* branch 2: the host of a URL
ClassifyUrl(ref) ==
    IF UrlparseRaises(ref) THEN Raised
    ELSE LET host == LowerStr(Netloc(ref))
         IN  IF Contains(host, <<"d", "a", "t", "a", ".", "g", "o", "v">>) \/ Contains(host, <<"e", "u", "r", "o", "p", "a", ".", "e", "u">>)
             THEN Classified(<<"O", "p", "e", "n", " ", "G", "o", "v", "e", "r", "n", "m", "e", "n", "t">>, "heuristic",
                             "Public sector domain '{host}'", host, "low", FALSE)
             ELSE IF Contains(host, <<"k", "a", "g", "g", "l", "e", ".", "c", "o", "m">>)
             THEN Classified(<<"V", "a", "r", "i", "e", "s", " ", "(", "K", "a", "g", "g", "l", "e", ")">>, "heuristic",
                             "Check the dataset page license on Kaggle", <<>>, "review", FALSE)
             ELSE IF Contains(host, <<"h", "u", "g", "g", "i", "n", "g", "f", "a", "c", "e", ".", "c", "o">>)
             THEN Classified(Unknown, "heuristic",
                             "HF link but not a dataset card; inspect manually", <<>>,
                             "review", FALSE)
             ELSE Classified(Unknown, "heuristic", "External host '{host}'", host,
                             "review", FALSE)

\* branch 3
IsLocalDataFile(ref) ==
    \E k \in 1..Len(DataExtensions) : EndsWith(LowerStr(ref), DataExtensions[k])

ClassifyReference(d, resp) ==
    IF IsHfType(d.type) /\ d.reference # <<>> THEN ClassifyHf(d.reference, resp)
    ELSE IF LooksLikeUrl(d.reference) THEN ClassifyUrl(d.reference)
    ELSE IF IsLocalDataFile(d.reference)
    THEN Classified(<<"P", "r", "o", "p", "r", "i", "e", "t", "a", "r", "y", "/", "P", "r", "o", "j", "e", "c", "t", "-", "i", "n", "t", "e", "r", "n", "a", "l">>, "heuristic",
                    "Local file path in repo", <<>>, "review", FALSE)
    ELSE Classified(Unknown, "heuristic", "Pattern matched but no license inference",
                    <<>>, "review", FALSE)

\* the entries whose classification consults the remote host
HfIndices(found) == {i \in 1..Len(found) : IsHfType(found[i].type)}

\* no remote answer is read for an entry of another kind
NoResponse == Response("unused", "notjson", "none", JNone, NoList)

ResponseFor(resps, i) == IF i \in DOMAIN resps THEN resps[i] ELSE NoResponse

\* the for loop of enrich_with_licences from entry i on: classify, then
\* store the four fields; an exception leaves the loop and the method.
\* The result is the list, the lookups made (entry index and answer, in
\* order), the entries that got their fields, and whether it raised.
RECURSIVE EnrichFrom(_, _, _, _, _)
EnrichFrom(found, i, resps, lookups, done) ==
    IF i > Len(found)
    THEN [found |-> found, lookups |-> lookups, done |-> done, raised |-> FALSE]
    ELSE LET c == ClassifyReference(found[i], ResponseFor(resps, i))
         IN  IF c.raised
             THEN [found |-> found, lookups |-> lookups, done |-> done, raised |-> TRUE]
             ELSE EnrichFrom(
                    [found EXCEPT ![i].licence = c.licence,
                                  ![i].licence_source = c.licence_source,
                                  ![i].notes = c.notes,
                                  ![i].risk_flag = c.risk_flag],
                    i + 1, resps,
                    IF c.looked
                    THEN Append(lookups, [index |-> i, resp |-> ResponseFor(resps, i)])
                    ELSE lookups,
                    Append(done, i))

(***************************************************************************)
(* generate_passport: the two report files.  Of summary.json the model     *)
(* keeps each entry's "reference" and "file" members as json.dump writes   *)
(* them, of summary.md each entry's heading.                                 *)
(***************************************************************************)
Escaped(c) ==
    CASE c = DQ -> <<BS, DQ>>
      [] c = BS -> <<BS, BS>>
      [] c = "\n" -> <<BS, "n">>
      [] c = "\t" -> <<BS, "t">>
      [] OTHER -> <<c>>

\* the characters json.dump escapes in a string
RECURSIVE JsonEscape(_)
JsonEscape(s) ==
    LET at == {i \in 1..Len(s) : Escaped(s[i]) # <<s[i]>>}
    IN  IF at = {} THEN s
        ELSE SubSeq(s, 1, Min(at) - 1) \o Escaped(s[Min(at)])
             \o JsonEscape(SubSeq(s, Min(at) + 1, Len(s)))

Digits == <<"0", "1", "2", "3", "4", "5", "6", "7", "8", "9">>

RECURSIVE Decimal(_)
Decimal(n) ==
    IF n < 10 THEN <<Digits[n + 1]>>
    ELSE Decimal(n \div 10) \o <<Digits[(n % 10) + 1]>>

RECURSIVE SummaryJson(_, _)
SummaryJson(found, i) ==
    IF i > Len(found) THEN <<>>
    ELSE <<"\"", "r", "e", "f", "e", "r", "e", "n", "c", "e", "\"", ":", " ", "\"">> \o JsonEscape(found[i].reference) \o <<"\"", ",", "\n">>
         \o <<"\"", "f", "i", "l", "e", "\"", ":", " ", "\"">> \o JsonEscape(found[i].file) \o <<"\"", ",", "\n">>
         \o SummaryJson(found, i + 1)

RECURSIVE SummaryMd(_, _)
SummaryMd(found, i) ==
    IF i > Len(found) THEN <<>>
    ELSE <<"#", "#", "#", " ">> \o Decimal(i) \o <<".", " ">> \o found[i].reference \o <<"\n", "\n">>
         \o SummaryMd(found, i + 1)

SummaryJsonPath == <<<<".", "p", "a", "s", "s", "p", "o", "r", "t">>, <<"s", "u", "m", "m", "a", "r", "y", ".", "j", "s", "o", "n">>>>
SummaryMdPath == <<<<".", "p", "a", "s", "s", "p", "o", "r", "t">>, <<"s", "u", "m", "m", "a", "r", "y", ".", "m", "d">>>>

ReportPaths == {SummaryJsonPath, SummaryMdPath}

NoDatasets == <<"\n", "#", "#", " ", "N", "o", " ", "d", "a", "t", "a", "s", "e", "t", "s", " ", "f", "o", "u", "n", "d", "\n">>

ReportFiles(found) ==
    {[path |-> SummaryJsonPath, text |-> SummaryJson(found, 1), readable |-> TRUE],
     [path |-> SummaryMdPath,
      text |-> IF found = <<>> THEN NoDatasets ELSE SummaryMd(found, 1),
      readable |-> TRUE]}

(***************************************************************************)
(* State.                                                                  *)
(***************************************************************************)
VARIABLES
    fs,               \* the files under root_dir
    datasets_found,   \* DatasetScanner.datasets_found
    scans,            \* calls of scan_repository so far; the clock found_at reads
    passes,           \* calls of enrich_with_licences so far
    matchLog,         \* history: every match the filters kept, in discovery order
    lastScan,         \* history: the tree, walk order and list of the latest scan
    lastPass,         \* history: the latest enrichment pass
    timesClassified   \* history: per entry, how often its four fields were stored

vars == <<fs, datasets_found, scans, passes, matchLog, lastScan, lastPass, timesClassified>>

UserFiles(tree) == {f \in tree : f.path \notin ReportPaths}

\* DatasetScanner() in main, on one of the trees
Init ==
    /\ fs \in Trees
    /\ datasets_found = <<>>
    /\ scans = 0
    /\ passes = 0
    /\ matchLog = <<>>
    /\ lastScan = [tree |-> {}, visited |-> <<>>, before |-> <<>>]
    /\ lastPass = [raised |-> FALSE, len |-> 0, lookups |-> <<>>, done |-> <<>>]
    /\ timesClassified = <<>>

\* a scan that starts from an empty list
ScannedAfresh(found, order, now) == ScanFiles(<<>>, order, now)

\* what scan_repository leaves in datasets_found when the walk yields the
\* eligible files in this order
Scanned(found, order, now) == ScanFiles(found, order, now)

\* scan_repository
ScanRepository ==
    /\ scans < MaxScans
    /\ \E order \in Orders({Read(f) : f \in EligibleFiles(fs)}) :
         LET found == Scanned(datasets_found, order, scans + 1)
         IN  /\ datasets_found' = found
             /\ matchLog' = matchLog \o Matched(order)
             /\ lastScan' = [tree |-> fs,
                              visited |-> [k \in 1..Len(order) |-> order[k].file],
                              before |-> datasets_found]
             /\ timesClassified' =
                  [i \in 1..Len(found) |->
                      IF i <= Len(timesClassified) THEN timesClassified[i] ELSE 0]
    /\ scans' = scans + 1
    /\ UNCHANGED <<fs, passes, lastPass>>

\* what enrich_with_licences does to the list under these remote answers
Enriched(found, resps) == EnrichFrom(found, 1, resps, <<>>, <<>>)

\* enrich_with_licences
EnrichWithLicences ==
    /\ passes < MaxPasses
    /\ \E resps \in [HfIndices(datasets_found) -> Responses] :
         LET r == Enriched(datasets_found, resps)
         IN  /\ datasets_found' = r.found
             /\ lastPass' = [raised |-> r.raised, len |-> Len(datasets_found),
                             lookups |-> r.lookups, done |-> r.done]
             /\ timesClassified' =
                  [i \in 1..Len(timesClassified) |->
                      IF \E k \in 1..Len(r.done) : r.done[k] = i
                      THEN timesClassified[i] + 1
                      ELSE timesClassified[i]]
    /\ passes' = passes + 1
    /\ UNCHANGED <<fs, scans, matchLog, lastScan>>

\* generate_passport: both report files are written anew
GeneratePassport ==
    /\ fs' = UserFiles(fs) \cup ReportFiles(datasets_found)
    /\ UNCHANGED <<datasets_found, scans, passes, matchLog, lastScan, lastPass,
                   timesClassified>>

Next ==
    \/ ScanRepository
    \/ EnrichWithLicences
    \/ GeneratePassport

Spec == Init /\ [][Next]_vars

(***************************************************************************)
(* Properties.                                                             *)
(***************************************************************************)
HfTypes == {"huggingface_load_dataset", "huggingface_datasets"}

Identity(e) ==
    [type |-> e.type, reference |-> e.reference, file |-> e.file, found_at |-> e.found_at]

Fields(e) ==
    [licence |-> e.licence, licence_source |-> e.licence_source,
     notes |-> e.notes, risk_flag |-> e.risk_flag]

HasFields(e) ==
    /\ e.licence # AbsentLicence
    /\ e.licence_source # Absent
    /\ e.notes # AbsentNotes
    /\ e.risk_flag # Absent

SameKey(a, b) == a.type = b.type /\ LowerStr(a.reference) = LowerStr(b.reference)

FirstMatch(e) == Min({k \in 1..Len(matchLog) : SameKey(matchLog[k], e)})

\* C1: no two entries of datasets_found share (type, reference lowercased),
\* every pair that was matched is in the list, and the entry kept for a pair is
\* the first one discovered: its file and its spelling are those of the first
\* match of the pair, over every scan of the scanner.
C1_DedupFirstWins ==
    /\ \A i, j \in 1..Len(datasets_found) :
         i # j => ~SameKey(datasets_found[i], datasets_found[j])
    /\ \A k \in 1..Len(matchLog) :
         \E i \in 1..Len(datasets_found) : SameKey(datasets_found[i], matchLog[k])
    /\ \A i \in 1..Len(datasets_found) :
         /\ \E k \in 1..Len(matchLog) : SameKey(matchLog[k], datasets_found[i])
         /\ datasets_found[i].file = matchLog[FirstMatch(datasets_found[i])].file
         /\ datasets_found[i].reference = matchLog[FirstMatch(datasets_found[i])].reference

\* a pair was matched again in another file, in another spelling, and dropped
C1_Witness ==
    \E i \in 1..Len(datasets_found) : \E k \in 1..Len(matchLog) :
        /\ SameKey(matchLog[k], datasets_found[i])
        /\ matchLog[k].file # datasets_found[i].file
        /\ matchLog[k].reference # datasets_found[i].reference

\* C2: a call of enrich_with_licences never raises, and after it every entry
\* that was in the list carries licence, licence_source, notes and risk_flag.
C2_EnrichNeverRaises ==
    passes > 0 =>
        /\ ~lastPass.raised
        /\ \A i \in 1..lastPass.len : HasFields(datasets_found[i])

ReadCsvOpen == <<"p", "d", ".", "r", "e", "a", "d", "_", "c", "s", "v", "(", "\"">>
ReadCsvClose == <<"\"", ")">>

ScenarioBPath(text) == SubSeq(text, Len(ReadCsvOpen) + 1, Len(text) - Len(ReadCsvClose))

\* the text is pd.read_csv("<path>") for a quoted local path ending in a
\* data-file extension
IsScenarioB(text) ==
    /\ Len(text) > Len(ReadCsvOpen) + Len(ReadCsvClose)
    /\ StartsWith(text, ReadCsvOpen)
    /\ EndsWith(text, ReadCsvClose)
    /\ \A k \in 1..Len(ScenarioBPath(text)) : ScenarioBPath(text)[k] \notin Quotes
    /\ \E k \in 1..Len(DataExtensions) :
         EndsWith(LowerStr(ScenarioBPath(text)), DataExtensions[k])
    /\ ~StartsWith(ScenarioBPath(text), <<"h", "t", "t", "p", ":", "/", "/">>)
    /\ ~StartsWith(ScenarioBPath(text), <<"h", "t", "t", "p", "s", ":", "/", "/">>)

\* the path is more than an extension, has no whitespace at either end and
\* names no hosted dataset
PlainPath(p) ==
    /\ \A k \in 1..Len(DataExtensions) : LowerStr(p) # DataExtensions[k]
    /\ p[1] \notin Whitespace
    /\ p[Len(p)] \notin Whitespace
    /\ ~Contains(LowerStr(p), <<"h", "u", "g", "g", "i", "n", "g", "f", "a", "c", "e", ".", "c", "o", "/", "d", "a", "t", "a", "s", "e", "t", "s", "/">>)

\* the latest scan was the scanner's first on a tree whose only file, an
\* eligible one, holds f.text
ScannedAlone(f) ==
    /\ scans >= 1
    /\ lastScan.before = <<>>
    /\ lastScan.tree = {f}
    /\ f.readable
    /\ Len(lastScan.visited) = 1

Found(i) ==
    [type |-> datasets_found[i].type, reference |-> datasets_found[i].reference,
     file |-> datasets_found[i].file]

\* C3: scanning a tree whose only eligible file holds only pd.read_csv("<path>"),
\* <path> a plain local path ending in a data-file extension, yields exactly
\* two references with value <path>: the pandas_read_csv one and then the
\* dataset_urls one, from the bare-literal rule matching the same literal.
C3_ReadCsvTwoReferences ==
    \A f \in lastScan.tree :
        (ScannedAlone(f) /\ IsScenarioB(f.text) /\ PlainPath(ScenarioBPath(f.text))) =>
            /\ Len(datasets_found) = 2
            /\ Found(1) = [type |-> "pandas_read_csv", reference |-> ScenarioBPath(f.text),
                           file |-> lastScan.visited[1]]
            /\ Found(2) = [type |-> "dataset_urls", reference |-> ScenarioBPath(f.text),
                           file |-> lastScan.visited[1]]

C3_Witness ==
    \E f \in lastScan.tree :
        /\ ScannedAlone(f) /\ IsScenarioB(f.text) /\ PlainPath(ScenarioBPath(f.text))
        /\ Len(datasets_found) = 2
        /\ datasets_found[2].type = "dataset_urls"

\* C3 as the specification states it: the same scan yields exactly one
\* reference, the pandas_read_csv one with value <path>.
C3_ReadCsvOneReference ==
    \A f \in lastScan.tree :
        (ScannedAlone(f) /\ IsScenarioB(f.text)) =>
            /\ Len(datasets_found) = 1
            /\ datasets_found[1].type = "pandas_read_csv"
            /\ datasets_found[1].reference = ScenarioBPath(f.text)

MissingOrEmpty(v) == v.k = "none" \/ (v.k = "str" /\ v.s = <<>>)

\* the lookup failed: an exception of urlopen, a body that is no JSON object,
\* no card, or no licence in the card
LookupFailed(resp) ==
    \/ resp.outcome # "ok"
    \/ resp.body # "dict"
    \/ resp.cardData # "dict"
    \/ /\ MissingOrEmpty(resp.license)
       /\ resp.licenses.k = "none" \/ resp.licenses.items = <<>>

\* C4: an entry whose remote lookup failed in the latest pass is enriched all
\* the same, with licence "Unknown", licence_source "heuristic" and risk_flag
\* "review".
C4_FailedLookupFallsBack ==
    \A k \in 1..Len(lastPass.lookups) :
        LookupFailed(lastPass.lookups[k].resp) =>
            /\ \E n \in 1..Len(lastPass.done) : lastPass.done[n] = lastPass.lookups[k].index
            /\ datasets_found[lastPass.lookups[k].index].type \in HfTypes
            /\ datasets_found[lastPass.lookups[k].index].licence = <<"U", "n", "k", "n", "o", "w", "n">>
            /\ datasets_found[lastPass.lookups[k].index].licence_source = "heuristic"
            /\ datasets_found[lastPass.lookups[k].index].risk_flag = "review"

C4_Witness ==
    \E k \in 1..Len(lastPass.lookups) :
        /\ lastPass.lookups[k].resp.outcome = "HTTPError"
        /\ datasets_found[lastPass.lookups[k].index].licence = <<"U", "n", "k", "n", "o", "w", "n">>

\* the component of a "/"-joined name that starts at position a
PartFrom(name, a) ==
    LET slashes == {j \in a..Len(name) : name[j] = "/"}
    IN  SubSeq(name, a, IF slashes = {} THEN Len(name) ELSE Min(slashes) - 1)

PartStarts(name) == {a \in 1..Len(name) : a = 1 \/ name[a - 1] = "/"}

\* the name lies under a skip directory or under a component that starts with
\* a dot, or is a reserved file
MustBeSkipped(name) ==
    \/ \E a \in PartStarts(name) \ {Max(PartStarts(name))} : PartFrom(name, a) \in skip_dirs
    \/ \E a \in PartStarts(name) : name[a] = "."
    \/ name \in skip_files

\* C5: no entry of datasets_found, and no match the scanner ever kept, comes
\* from a file under a skip directory, under a component starting with ".",
\* or from a reserved file.
C5_SkippedFilesContributeNothing ==
    /\ \A i \in 1..Len(datasets_found) : ~MustBeSkipped(datasets_found[i].file)
    /\ \A k \in 1..Len(matchLog) : ~MustBeSkipped(matchLog[k].file)

\* a second scan of a tree that holds, besides a file that contributed, the
\* summary.json of an earlier run, a file under data/, one under a hidden
\* directory and the reserved README.md, each with text the rules match
C5_Witness ==
    /\ scans = 2
    /\ datasets_found # <<>>
    /\ \E f \in lastScan.tree : f.path = SummaryJsonPath /\ Candidates(f.text) # <<>>
    /\ \E f \in lastScan.tree : f.path[1] = <<"d", "a", "t", "a">> /\ Candidates(f.text) # <<>>
    /\ \E f \in lastScan.tree : f.path = <<<<"s", "r", "c">>, <<".", "c", "a", "c", "h", "e">>, <<"d", ".", "p", "y">>>> /\ Candidates(f.text) # <<>>
    /\ \E f \in lastScan.tree : f.path = <<<<"R", "E", "A", "D", "M", "E", ".", "m", "d">>>> /\ Candidates(f.text) # <<>>

LookupsOf(i) == {k \in 1..Len(lastPass.lookups) : lastPass.lookups[k].index = i}

\* C6: in a pass exactly one lookup is made for each hosted-dataset entry and
\* none for another entry, and after a lookup that failed every entry that
\* follows is classified.
C6_OneLookupPerHostedReference ==
    passes > 0 =>
        /\ \A i \in 1..lastPass.len :
             Cardinality(LookupsOf(i)) = IF datasets_found[i].type \in HfTypes THEN 1 ELSE 0
        /\ \A k \in 1..Len(lastPass.lookups) :
             LookupFailed(lastPass.lookups[k].resp) =>
                 \A j \in (lastPass.lookups[k].index + 1)..lastPass.len :
                     \E n \in 1..Len(lastPass.done) : lastPass.done[n] = j

ClaimedMarkers == PermissiveMarkers \cup {<<"c", "c", "-", "b", "y">>, <<"c", "c", " ", "b", "y">>}

\* C7: an enriched entry with licence_source "heuristic" and licence "Unknown"
\* has risk_flag "review", and one whose lower-cased licence contains a
\* permissive marker has risk_flag "low".
C7_RiskMonotonicity ==
    \A i \in 1..Len(datasets_found) :
        HasFields(datasets_found[i]) =>
            /\ (datasets_found[i].licence_source = "heuristic"
                  /\ datasets_found[i].licence = <<"U", "n", "k", "n", "o", "w", "n">>)
                 => datasets_found[i].risk_flag = "review"
            /\ (\E m \in ClaimedMarkers : Contains(LowerStr(datasets_found[i].licence), m))
                 => datasets_found[i].risk_flag = "low"

C7_Witness ==
    \E i \in 1..Len(datasets_found) :
        /\ datasets_found[i].licence_source = "huggingface_api"
        /\ Contains(LowerStr(datasets_found[i].licence), <<"c", "c", "-", "b", "y">>)
        /\ datasets_found[i].risk_flag = "low"

HfUrl == <<"h", "t", "t", "p", "s", ":", "/", "/", "h", "u", "g", "g", "i", "n", "g", "f", "a", "c", "e", ".", "c", "o", "/", "d", "a", "t", "a", "s", "e", "t", "s", "/">>

IdStops(text, p) == {j \in (p + Len(HfUrl))..Len(text) : text[j] \in Quotes \cup Whitespace}

\* the identifier of the URL at p: up to the closing quote or first whitespace
IdAt(text, p) == SubSeq(text, p + Len(HfUrl), Min(IdStops(text, p)) - 1)

\* at p starts a URL of a dataset, quoted or unquoted and followed by
\* whitespace, whose identifier has at least 3 characters
HasIdAt(text, p) ==
    /\ StartsWithAt(text, p, HfUrl)
    /\ IdStops(text, p) # {}
    /\ Len(IdAt(text, p)) >= 3
    /\ \/ /\ p > 1
          /\ text[p - 1] \in Quotes
          /\ text[Min(IdStops(text, p))] = text[p - 1]
       \/ /\ p = 1 \/ text[p - 1] \notin Quotes
          /\ text[Min(IdStops(text, p))] \in Whitespace

\* C8: for every URL https://huggingface.co/datasets/<id> in a file the latest
\* scan read, datasets_found holds a huggingface_datasets entry whose reference
\* is exactly <id>.
C8_HfUrlYieldsId ==
    \A f \in lastScan.tree :
        (f.readable /\ \E k \in 1..Len(lastScan.visited) :
                           lastScan.visited[k] = RelativeName(f.path)) =>
            \A p \in {q \in 1..Len(f.text) : HasIdAt(f.text, q)} :
                \E i \in 1..Len(datasets_found) :
                    /\ datasets_found[i].type = "huggingface_datasets"
                    /\ datasets_found[i].reference = IdAt(f.text, p)

\* the branch the specification gives an entry
BranchDue(e) ==
    IF e.type \in HfTypes THEN "remote"
    ELSE IF StartsWith(e.reference, <<"h", "t", "t", "p", ":", "/", "/">>) \/ StartsWith(e.reference, <<"h", "t", "t", "p", "s", ":", "/", "/">>)
    THEN "host"
    ELSE IF \E k \in 1..Len(DataExtensions) :
               EndsWith(LowerStr(e.reference), DataExtensions[k])
    THEN "local"
    ELSE "fallback"

\* the branch whose note the entry carries
BranchTaken(e) ==
    CASE e.notes.text \in {"License read from HF card for '{hf_id}'",
                           "No license field found for '{hf_id}'"} -> "remote"
      [] e.notes.text \in {"Public sector domain '{host}'",
                           "Check the dataset page license on Kaggle",
                           "HF link but not a dataset card; inspect manually",
                           "External host '{host}'"} -> "host"
      [] e.notes.text = "Local file path in repo" -> "local"
      [] e.notes.text = "Pattern matched but no license inference" -> "fallback"
      [] OTHER -> "none"

\* government, then marketplace, then dataset host, then any other host
HostNoteDue(ref) ==
    LET host == LowerStr(Netloc(ref))
    IN  IF Contains(host, <<"d", "a", "t", "a", ".", "g", "o", "v">>) \/ Contains(host, <<"e", "u", "r", "o", "p", "a", ".", "e", "u">>)
        THEN "Public sector domain '{host}'"
        ELSE IF Contains(host, <<"k", "a", "g", "g", "l", "e", ".", "c", "o", "m">>) THEN "Check the dataset page license on Kaggle"
        ELSE IF Contains(host, <<"h", "u", "g", "g", "i", "n", "g", "f", "a", "c", "e", ".", "c", "o">>)
        THEN "HF link but not a dataset card; inspect manually"
        ELSE "External host '{host}'"

\* C9: after a pass every entry that was in the list is classified by the
\* first branch that matches it, in the order remote lookup, host of a URL,
\* local data file, fallback.
C9_FirstMatchingBranch ==
    passes > 0 =>
        \A i \in 1..lastPass.len :
            /\ BranchTaken(datasets_found[i]) = BranchDue(datasets_found[i])
            /\ BranchDue(datasets_found[i]) = "host" =>
                 datasets_found[i].notes.text = HostNoteDue(datasets_found[i].reference)
            /\ BranchDue(datasets_found[i]) = "local" =>
                 datasets_found[i].licence = <<"P", "r", "o", "p", "r", "i", "e", "t", "a", "r", "y", "/", "P", "r", "o", "j", "e", "c", "t", "-", "i", "n", "t", "e", "r", "n", "a", "l">>
            /\ BranchDue(datasets_found[i]) = "fallback" =>
                 /\ datasets_found[i].licence = <<"U", "n", "k", "n", "o", "w", "n">>
                 /\ datasets_found[i].risk_flag = "review"

\* entries are added only by scan_repository and never removed or reordered;
\* no call changes an entry's type, reference, file or found_at; a call of
\* enrich_with_licences stores an entry's fields at most once and
\* generate_passport leaves the list as it is
LifecycleStep ==
    /\ Len(datasets_found') >= Len(datasets_found)
    /\ \A i \in 1..Len(datasets_found) :
         Identity(datasets_found'[i]) = Identity(datasets_found[i])
    /\ Len(datasets_found') > Len(datasets_found) => scans' = scans + 1
    /\ scans' = scans + 1 =>
         \A i \in 1..Len(datasets_found) : datasets_found'[i] = datasets_found[i]
    /\ passes' = passes + 1 =>
         /\ Len(datasets_found') = Len(datasets_found)
         /\ \A i \in 1..Len(datasets_found) :
              /\ timesClassified'[i] \in {timesClassified[i], timesClassified[i] + 1}
              /\ timesClassified'[i] = timesClassified[i] =>
                   Fields(datasets_found'[i]) = Fields(datasets_found[i])
    /\ fs' # fs => datasets_found' = datasets_found

====
